---- MODULE Spec2Model ----
(***************************************************************************)
(* Fixed-window rate limiter of throttler.py: the keyed-singleton registry *)
(* (KeywordSingleton), the interval tracker (IntervalTrackerMixin) and the *)
(* wrapping adapter (ThrottlerDecorator), run by a set of threads.         *)
(* Time is counted in milliseconds.                                        *)
(*                                                                         *)
(* Spec        the whole program: threads construct decorators through the *)
(*             registry and call wrapped operations.                       *)
(* SpecWindow  one decorator, already constructed with any duration and    *)
(*             limit, and calls of its wrapped operation.                  *)
(* SpecBurst   SpecWindow with one more thread.                            *)
(* SpecReset   Spec with the registry reset that the tests call.           *)
(* SpecWindowFair  SpecWindow under fair scheduling of the threads.        *)
(***************************************************************************)
EXTENDS Integers, Sequences, FiniteSets, TLC

\* ---------------------------------------------------------------- bounds
\* Spec: threads, wrapper invocations, objects, target values, arguments
NumThreads == 2
MaxCalls == 2
MaxTrackers == 2
MaxTarget == 1
MaxDuration == 1
RegistryLimit == 1
\* SpecWindow and SpecBurst: wrapper invocations, the limit argument
MaxBurst == 3
MaxLimit == 2
\* SpecBurst: threads
BurstThreads == 3
\* the clock readings are numbered 0..MaxTicks
MaxTicks == 4

\* ------------------------------------------------------ program constants
\* execution_time: int = 10 (milliseconds), the default ThrottlerDecorator uses
DefaultExecutionTime == 10
\* timedelta(seconds=1) in milliseconds
MsPerSecond == 1000
\* interval_start / interval_end before the first window: None
None == -1
\* Lock() as constructed: nobody holds it
Unlocked == 0

\* the clock's granularity: one step is shorter than the execution slack
ClockStep == DefaultExecutionTime - 1
\* the clock readings datetime.now() can give: the start of a second, and one
\* step later
Instants == {(i \div 2) * MsPerSecond + (i % 2) * ClockStep : i \in 0..MaxTicks}
\* target values; 0 stands for the default target=None
Targets == 0..MaxTarget
\* constructor arguments
DurationArgs == 0..MaxDuration
LimitArgs == 0..MaxLimit

VARIABLES
    clock,          \* datetime.now()
    instances,      \* KeywordSingleton.__instances: target -> tracker (0: absent)
    heap,           \* the ThrottlerDecorator objects created so far
    pc,             \* per thread: position in the code
    self,           \* per thread: the tracker of the running call (0: none)
    args,           \* per thread: arguments of the running construction
    now,            \* per thread: local of make_request
    submit_time,    \* per thread: local of make_request
    branch,         \* per thread: the branch the running make_request took
    ret,            \* per thread: value the running make_request returns
    got,            \* history: target -> trackers the constructions returned
    stats,          \* history: tracker -> make_request decisions, per branch
    executed,       \* history: tracker -> executions of wrapped operations
    raised,         \* history: tracker -> RuntimeErrors raised by the wrapper
    callers,        \* history: the threads that have invoked a wrapper
    budget,         \* wrapper invocations the run may still start
    cleared         \* history: trackers that existed at the last clear_instances() call

vars == <<clock, instances, heap, pc, self, args, now, submit_time, branch, ret,
          got, stats, executed, raised, callers, budget, cleared>>

Threads == DOMAIN pc
Trackers == 1..Len(heap)

\* ------------------------------------------------------------- conversions
timedelta_seconds(s) == s * MsPerSecond
timedelta_milliseconds(m) == m

NoArgs == [target |-> 0, duration |-> 0, limit |-> 0]

\* the branches of make_request:
\*   first    no window yet, rollover admit            (lines 65-68)
\*   expired  now > interval_end, rollover admit       (lines 65-68)
\*   admit    inside the window, below the limit       (lines 70-73)
\*   deny     inside the window, limit reached         (line 74)
\*   fall     neither condition holds                  (line 76)
\* inwindow: the True returns since, and including, the last rollover
NoStats == [first |-> 0, expired |-> 0, admit |-> 0, deny |-> 0, fall |-> 0,
            inwindow |-> 0]

\* IntervalTrackerMixin.__init__ reached through ThrottlerDecorator.__init__
NewTracker(duration, limit, target) ==
    [ target          |-> target,
      duration        |-> timedelta_seconds(duration),
      limit           |-> limit,
      execution_time  |-> timedelta_milliseconds(DefaultExecutionTime),
      actions_counter |-> 0,
      interval_start  |-> None,
      interval_end    |-> None,
      lock            |-> Unlocked ]

\* mutant of refresh_timers: the counter is not reset on rollover
refresh_timers_KeepCounter(tr, st) ==
    [tr EXCEPT !.interval_start = st,
               !.interval_end = st + tr.duration]

\* mutant of refresh_timers: the new window starts where the old one ended
refresh_timers_BackToBack(tr, st) ==
    LET start == IF tr.interval_end = None THEN st ELSE tr.interval_end IN
    [tr EXCEPT !.interval_start = start,
               !.interval_end = start + tr.duration,
               !.actions_counter = 0]

\* refresh_timers(submit_time)
refresh_timers(tr, st) ==
    [tr EXCEPT !.interval_start = st,
               !.interval_end = st + tr.duration,
               !.actions_counter = 0]

\* mutant of Branch: a reading before the window's start counts as expired
Branch_OutsideIsExpired(tr, n) ==
    IF tr.interval_start = None THEN "first"
    ELSE IF n > tr.interval_end \/ n < tr.interval_start THEN "expired"
    ELSE IF tr.actions_counter < tr.limit THEN "admit" ELSE "deny"

\* mutant of Branch: a call is admitted while actions_counter <= limit
Branch_OffByOne(tr, n) ==
    IF tr.interval_start = None THEN "first"
    ELSE IF n > tr.interval_end THEN "expired"
    ELSE IF tr.interval_start <= n /\ n <= tr.interval_end
         THEN IF tr.actions_counter <= tr.limit THEN "admit" ELSE "deny"
         ELSE "fall"

\* the conditions of make_request, evaluated under the lock
Branch(tr, n) ==
    IF tr.interval_start = None THEN "first"
    ELSE IF n > tr.interval_end THEN "expired"
    ELSE IF tr.interval_start <= n /\ n <= tr.interval_end
         THEN IF tr.actions_counter < tr.limit THEN "admit" ELSE "deny"
         ELSE "fall"

\* ------------------------------------------------------------ initial states
Idle(n) ==
    /\ clock = 0
    /\ pc = [t \in 1..n |-> "idle"]
    /\ self = [t \in 1..n |-> 0]
    /\ args = [t \in 1..n |-> NoArgs]
    /\ now = [t \in 1..n |-> 0]
    /\ submit_time = [t \in 1..n |-> 0]
    /\ branch = [t \in 1..n |-> "none"]
    /\ ret = [t \in 1..n |-> "none"]
    /\ stats = [k \in 1..MaxTrackers |-> NoStats]
    /\ executed = [k \in 1..MaxTrackers |-> 0]
    /\ raised = [k \in 1..MaxTrackers |-> 0]
    /\ callers = {}
    /\ cleared = 0

\* the module is imported: the registry is empty
Init ==
    /\ Idle(NumThreads)
    /\ instances = [g \in Targets |-> 0]
    /\ heap = <<>>
    /\ got = [g \in Targets |-> {}]
    /\ budget = MaxCalls

\* one decorator has been constructed with the default target
Constructed(n) ==
    /\ Idle(n)
    /\ \E d \in DurationArgs \ {0}, l \in LimitArgs : heap = <<NewTracker(d, l, 0)>>
    /\ instances = [g \in Targets |-> IF g = 0 THEN 1 ELSE 0]
    /\ got = [g \in Targets |-> IF g = 0 THEN {1} ELSE {}]
    /\ budget = MaxBurst

InitWindow == Constructed(NumThreads)

InitBurst == Constructed(BurstThreads)

\* ------------------------------------------------------------------ clock
Tick ==
    /\ \E c \in Instants : c > clock /\ clock' = c
    /\ UNCHANGED <<instances, heap, pc, self, args, now, submit_time, branch, ret, got, stats, executed, raised, callers, budget, cleared>>

\* ------------------------------------------- KeywordSingleton.__call__
\* line 17: if target not in cls.__instances
Construct(t, target, duration, limit) ==
    /\ pc[t] = "idle"
    /\ args' = [args EXCEPT ![t] = [target |-> target, duration |-> duration, limit |-> limit]]
    /\ pc' = [pc EXCEPT ![t] = IF instances[target] = 0 THEN "create" ELSE "return"]
    /\ UNCHANGED <<clock, instances, heap, self, now, submit_time, branch, ret, got, stats, executed, raised, callers, budget, cleared>>

\* lines 18-19: cls.__instances[target] = super().__call__(*args, **kwargs)
Create(t) ==
    /\ pc[t] = "create"
    /\ Len(heap) < MaxTrackers
    /\ heap' = Append(heap, NewTracker(args[t].duration, args[t].limit, args[t].target))
    /\ instances' = [instances EXCEPT ![args[t].target] = Len(heap) + 1]
    /\ pc' = [pc EXCEPT ![t] = "return"]
    /\ UNCHANGED <<clock, self, args, now, submit_time, branch, ret, got, stats, executed, raised, callers, budget, cleared>>

\* line 20: return cls.__instances[target]
Return(t) ==
    /\ pc[t] = "return"
    /\ got' = [got EXCEPT ![args[t].target] = @ \cup {instances[args[t].target]}]
    /\ args' = [args EXCEPT ![t] = NoArgs]
    /\ pc' = [pc EXCEPT ![t] = "idle"]
    /\ UNCHANGED <<clock, instances, heap, self, now, submit_time, branch, ret, stats, executed, raised, callers, budget, cleared>>

\* KeywordSingleton.clear_instances(), as tearDown of tests/ThrottlerDecorator.py
\* calls it: the metaclass has no such attribute, the call raises AttributeError
\* and __instances stays as it is
ClearInstances(t) ==
    /\ pc[t] = "idle"
    /\ cleared' = Len(heap)
    /\ UNCHANGED <<clock, instances, heap, pc, self, args, now, submit_time, branch, ret, got, stats, executed, raised, callers, budget>>

\* the decorators in use: every tracker a construction has returned
Handles == UNION {got[g] : g \in Targets}

\* ------------------------------------------- sync_wrapper / async_wrapper
\* a thread calls an operation wrapped by decorator k
Invoke(t, k) ==
    /\ pc[t] = "idle"
    /\ k \in Handles
    /\ budget > 0
    /\ budget' = budget - 1
    /\ callers' = callers \cup {t}
    /\ self' = [self EXCEPT ![t] = k]
    /\ pc' = [pc EXCEPT ![t] = "clock"]
    /\ UNCHANGED <<clock, instances, heap, args, now, submit_time, branch, ret, got, stats, executed, raised, cleared>>

\* ------------------------------------------------------------ make_request
\* line 62: now, submit_time = self.now_execution_time()
ReadClock(t) ==
    /\ pc[t] = "clock"
    /\ now' = [now EXCEPT ![t] = clock]
    /\ submit_time' = [submit_time EXCEPT ![t] = clock + heap[self[t]].execution_time]
    /\ pc' = [pc EXCEPT ![t] = "acquire"]
    /\ UNCHANGED <<clock, instances, heap, self, args, branch, ret, got, stats, executed, raised, callers, budget, cleared>>

\* mutant of Acquire: the with statement does not wait for the lock
Acquire_NoWait(t) ==
    /\ pc[t] = "acquire"
    /\ heap' = [heap EXCEPT ![self[t]].lock = t]
    /\ pc' = [pc EXCEPT ![t] = "check"]
    /\ UNCHANGED <<clock, instances, self, args, now, submit_time, branch, ret, got, stats, executed, raised, callers, budget, cleared>>

\* line 64: with self.lock
Acquire(t) ==
    /\ pc[t] = "acquire"
    /\ heap[self[t]].lock = Unlocked
    /\ heap' = [heap EXCEPT ![self[t]].lock = t]
    /\ pc' = [pc EXCEPT ![t] = "check"]
    /\ UNCHANGED <<clock, instances, self, args, now, submit_time, branch, ret, got, stats, executed, raised, callers, budget, cleared>>

\* the decision of thread t's make_request is recorded
Decided(t, b) ==
    [stats EXCEPT ![self[t]][b] = @ + 1,
                  ![self[t]].inwindow = CASE b \in {"first", "expired"} -> 1
                                          [] b = "admit" -> @ + 1
                                          [] OTHER -> @]

\* mutant of Check: a denied call is counted too
Check_CountDenied(t) ==
    /\ pc[t] = "check"
    /\ LET b == Branch(heap[self[t]], now[t]) IN
         /\ branch' = [branch EXCEPT ![t] = b]
         /\ pc' = [pc EXCEPT ![t] = CASE b \in {"first", "expired"} -> "refresh"
                                      [] b = "admit" -> "incr"
                                      [] OTHER -> "release"]
         /\ ret' = [ret EXCEPT ![t] = IF b \in {"deny", "fall"} THEN "False" ELSE @]
         /\ stats' = IF b \in {"deny", "fall"} THEN Decided(t, b) ELSE stats
         /\ heap' = IF b = "deny" THEN [heap EXCEPT ![self[t]].actions_counter = @ + 1]
                    ELSE heap
    /\ UNCHANGED <<clock, instances, self, args, now, submit_time, got, executed, raised, callers, budget, cleared>>

\* lines 65 and 70-71: the conditions; lines 74 and 76: return False
Check(t) ==
    /\ pc[t] = "check"
    /\ LET b == Branch(heap[self[t]], now[t]) IN
         /\ branch' = [branch EXCEPT ![t] = b]
         /\ pc' = [pc EXCEPT ![t] = CASE b \in {"first", "expired"} -> "refresh"
                                      [] b = "admit" -> "incr"
                                      [] OTHER -> "release"]
         /\ ret' = [ret EXCEPT ![t] = IF b \in {"deny", "fall"} THEN "False" ELSE @]
         /\ stats' = IF b \in {"deny", "fall"} THEN Decided(t, b) ELSE stats
    /\ UNCHANGED <<clock, instances, heap, self, args, now, submit_time, got, executed, raised, callers, budget, cleared>>

\* line 66: self.refresh_timers(submit_time)
Refresh(t) ==
    /\ pc[t] = "refresh"
    /\ heap' = [heap EXCEPT ![self[t]] = refresh_timers(@, submit_time[t])]
    /\ pc' = [pc EXCEPT ![t] = "incr"]
    /\ UNCHANGED <<clock, instances, self, args, now, submit_time, branch, ret, got, stats, executed, raised, callers, budget, cleared>>

\* mutant of Incr: actions_counter is shared by all the trackers
Incr_SharedCounter(t) ==
    /\ pc[t] = "incr"
    /\ heap' = [k \in Trackers |-> [heap[k] EXCEPT !.actions_counter = @ + 1]]
    /\ ret' = [ret EXCEPT ![t] = "True"]
    /\ stats' = Decided(t, branch[t])
    /\ pc' = [pc EXCEPT ![t] = "release"]
    /\ UNCHANGED <<clock, instances, self, args, now, submit_time, branch, got, executed, raised, callers, budget, cleared>>

\* mutant of Incr: a call admitted inside the window is not counted
Incr_AdmitUncounted(t) ==
    /\ pc[t] = "incr"
    /\ heap' = [heap EXCEPT ![self[t]].actions_counter =
                                IF branch[t] = "admit" THEN @ ELSE @ + 1]
    /\ ret' = [ret EXCEPT ![t] = "True"]
    /\ stats' = Decided(t, branch[t])
    /\ pc' = [pc EXCEPT ![t] = "release"]
    /\ UNCHANGED <<clock, instances, self, args, now, submit_time, branch, got, executed, raised, callers, budget, cleared>>

\* lines 67-68 and 72-73: self.actions_counter += 1; return True
Incr(t) ==
    /\ pc[t] = "incr"
    /\ heap' = [heap EXCEPT ![self[t]].actions_counter = @ + 1]
    /\ ret' = [ret EXCEPT ![t] = "True"]
    /\ stats' = Decided(t, branch[t])
    /\ pc' = [pc EXCEPT ![t] = "release"]
    /\ UNCHANGED <<clock, instances, self, args, now, submit_time, branch, got, executed, raised, callers, budget, cleared>>

\* mutant of Release: the lock stays held when make_request returns
Release_KeepLock(t) ==
    /\ pc[t] = "release"
    /\ now' = [now EXCEPT ![t] = 0]
    /\ submit_time' = [submit_time EXCEPT ![t] = 0]
    /\ branch' = [branch EXCEPT ![t] = "none"]
    /\ pc' = [pc EXCEPT ![t] = "gate"]
    /\ UNCHANGED <<clock, instances, heap, self, args, ret, got, stats, executed, raised, callers, budget, cleared>>

\* leaving the with block: the lock is released, make_request returns
Release(t) ==
    /\ pc[t] = "release"
    /\ heap' = [heap EXCEPT ![self[t]].lock = Unlocked]
    /\ now' = [now EXCEPT ![t] = 0]
    /\ submit_time' = [submit_time EXCEPT ![t] = 0]
    /\ branch' = [branch EXCEPT ![t] = "none"]
    /\ pc' = [pc EXCEPT ![t] = "gate"]
    /\ UNCHANGED <<clock, instances, self, args, ret, got, stats, executed, raised, callers, budget, cleared>>

\* ------------------------------------------------------ throttling_context
\* mutant of Execute: the wrapped operation runs whatever make_request returned
Execute_Ungated(t) ==
    /\ pc[t] = "gate"
    /\ executed' = [executed EXCEPT ![self[t]] = @ + 1]
    /\ self' = [self EXCEPT ![t] = 0]
    /\ ret' = [ret EXCEPT ![t] = "none"]
    /\ pc' = [pc EXCEPT ![t] = "idle"]
    /\ UNCHANGED <<clock, instances, heap, args, now, submit_time, branch, got, stats, raised, callers, budget, cleared>>

\* lines 116-117 and 97/102: yield, the wrapped operation runs
Execute(t) ==
    /\ pc[t] = "gate"
    /\ ret[t] = "True"
    /\ executed' = [executed EXCEPT ![self[t]] = @ + 1]
    /\ self' = [self EXCEPT ![t] = 0]
    /\ ret' = [ret EXCEPT ![t] = "none"]
    /\ pc' = [pc EXCEPT ![t] = "idle"]
    /\ UNCHANGED <<clock, instances, heap, args, now, submit_time, branch, got, stats, raised, callers, budget, cleared>>

\* lines 118-119: raise RuntimeError
Throttled(t) ==
    /\ pc[t] = "gate"
    /\ ret[t] # "True"
    /\ raised' = [raised EXCEPT ![self[t]] = @ + 1]
    /\ self' = [self EXCEPT ![t] = 0]
    /\ ret' = [ret EXCEPT ![t] = "none"]
    /\ pc' = [pc EXCEPT ![t] = "idle"]
    /\ UNCHANGED <<clock, instances, heap, args, now, submit_time, branch, got, stats, executed, callers, budget, cleared>>

\* a wrapped operation is called: wrapper, make_request, throttling_context
Call ==
    \/ \E t \in Threads, k \in 1..MaxTrackers : Invoke(t, k)
    \/ \E t \in Threads : ReadClock(t)
    \/ \E t \in Threads : Acquire(t)
    \/ \E t \in Threads : Check(t)
    \/ \E t \in Threads : Refresh(t)
    \/ \E t \in Threads : Incr(t)
    \/ \E t \in Threads : Release(t)
    \/ \E t \in Threads : Execute(t)
    \/ \E t \in Threads : Throttled(t)

Next ==
    \/ Tick
    \/ \E t \in Threads, g \in Targets, d \in DurationArgs :
          Construct(t, g, d, RegistryLimit)
    \/ \E t \in Threads : Create(t)
    \/ \E t \in Threads : Return(t)
    \/ Call

NextWindow ==
    \/ Tick
    \/ Call

\* the whole program with the registry reset the tests use
NextReset ==
    \/ Tick
    \/ \E t \in Threads, g \in Targets, d \in DurationArgs \ {0} :
          Construct(t, g, d, RegistryLimit)
    \/ \E t \in Threads : Create(t)
    \/ \E t \in Threads : Return(t)
    \/ \E t \in Threads : ClearInstances(t)
    \/ Call

Spec == Init /\ [][Next]_vars

SpecReset == Init /\ [][NextReset]_vars

SpecWindow == InitWindow /\ [][NextWindow]_vars

SpecBurst == InitBurst /\ [][NextWindow]_vars

\* the statements of make_request, run by thread t
MakeRequest(t) ==
    \/ ReadClock(t)
    \/ Acquire(t)
    \/ Check(t)
    \/ Refresh(t)
    \/ Incr(t)
    \/ Release(t)

\* SpecWindow where every thread that can run a statement of make_request
\* eventually runs
SpecWindowFair ==
    SpecWindow /\ \A t \in 1..NumThreads : WF_vars(MakeRequest(t))


\* ------------------------------------------------------ derived quantities
\* make_request calls on tracker k that returned True / False / either
Trues(k) == stats[k].first + stats[k].expired + stats[k].admit
Falses(k) == stats[k].deny + stats[k].fall
Decisions(k) == Trues(k) + Falses(k)
\* threads whose make_request on k has returned b and whose wrapper has not yet acted on it
InFlight(k, b) == Cardinality({t \in Threads : self[t] = k /\ ret[t] = b})
\* positions inside make_request
MakeRequestPcs == {"clock", "acquire", "check", "refresh", "incr", "release"}
\* the trackers created for target g, and the first of them
CreatedFor(g) == {k \in Trackers : heap[k].target = g}
FirstCreated(g) == CHOOSE k \in CreatedFor(g) : \A j \in CreatedFor(g) : k <= j

\* positions inside the with block of make_request (lines 65-76)
CriticalPcs == {"check", "refresh", "incr", "release"}
\* the threads inside the with block of tracker k's make_request
InCritical(k) == {t \in Threads : self[t] = k /\ pc[t] \in CriticalPcs}
\* the threads that have opened a window on tracker k (line 66) and have not
\* yet counted themselves into it (line 67)
Opening(k) ==
    {t \in Threads : self[t] = k /\ pc[t] = "incr" /\ branch[t] \in {"first", "expired"}}
\* interval_start, interval_end and actions_counter of a tracker
Window(tr) == <<tr.interval_start, tr.interval_end, tr.actions_counter>>

\* ------------------------------------------------------------------ claims

\* C1 (SpecWindow). Window rollover: on a fresh tracker with limit L >= 1, calls
\* made one after the other by one thread inside the first window: the first L
\* return True and the (L+1)-th returns False.
C1_WindowRollover ==
    \A k \in Trackers :
        (/\ heap[k].limit >= 1
         /\ Cardinality(callers) <= 1
         /\ stats[k].expired = 0
         /\ Decisions(k) <= heap[k].limit + 1)
        => Trues(k) = (IF Decisions(k) <= heap[k].limit THEN Decisions(k) ELSE heap[k].limit)

\* C2 (SpecBurst). Concurrency safety: N threads, each with one call on the same
\* tracker with limit L, 1 <= L < N, all inside one window: once all have
\* returned, exactly L calls returned True and N - L returned False.
C2_ConcurrencySafety ==
    \A k \in Trackers :
        (/\ heap[k].limit >= 1
         /\ \A t \in Threads : pc[t] = "idle"
         /\ callers = Threads
         /\ Decisions(k) = Cardinality(Threads)
         /\ Decisions(k) > heap[k].limit
         /\ stats[k].expired = 0)
        => (Trues(k) = heap[k].limit /\ Falses(k) = Decisions(k) - heap[k].limit)

\* C3 (SpecWindow). Hard reset on expiry: a make_request on a tracker with
\* limit >= 1 that finds the window expired returns True and leaves
\* actions_counter at 1, whatever was admitted or denied in the expired window.
C3_HardReset ==
    \A t \in Threads :
        (pc[t] = "release" /\ branch[t] = "expired" /\ heap[self[t]].limit >= 1)
        => (ret[t] = "True" /\ heap[self[t]].actions_counter = 1)

\* C3 witness: a call has rolled over an expired window in which calls were denied
C3_Witness ==
    \E t \in Threads :
        /\ pc[t] = "release" /\ branch[t] = "expired"
        /\ heap[self[t]].limit >= 1
        /\ Falses(self[t]) >= 1
        /\ ret[t] = "True" /\ heap[self[t]].actions_counter = 1

\* C4 (SpecWindow). Zero limit: no make_request on a tracker with limit 0 returns True.
C4_ZeroLimit ==
    \A k \in Trackers : heap[k].limit = 0 => Trues(k) = 0

\* C5 (SpecWindow). Counter bound: 0 <= actions_counter <= limit for every
\* tracker with limit >= 0.
C5_CounterBound ==
    \A k \in Trackers :
        heap[k].limit >= 0
        => (0 <= heap[k].actions_counter /\ heap[k].actions_counter <= heap[k].limit)

\* C6 (Spec). Key identity: every construction with a target returns the tracker
\* the first construction with that target created.
C6_KeyIdentity ==
    \A g \in Targets : \A k \in got[g] : k = FirstCreated(g)

\* C7 (Spec). Key independence: constructions with different targets return
\* different trackers, and no step of a make_request on the tracker of one target
\* changes interval_start, interval_end or actions_counter of a tracker of
\* another target.
C7_KeyIndependence ==
    [][ /\ \A g1, g2 \in Targets : g1 # g2 => got'[g1] \cap got'[g2] = {}
        /\ \A t \in Threads :
              (pc[t] \in MakeRequestPcs /\ pc'[t] # pc[t])
              => \A j \in Trackers :
                    heap[j].target # heap[self[t]].target
                    => /\ heap'[j].interval_start = heap[j].interval_start
                       /\ heap'[j].interval_end = heap[j].interval_end
                       /\ heap'[j].actions_counter = heap[j].actions_counter ]_vars

\* C7 witness: trackers of two targets are in use, one has admitted a call and
\* the other has not been touched
C7_Witness ==
    \E j, k \in Handles :
        /\ heap[j].target # heap[k].target
        /\ Trues(j) = 1 /\ heap[j].actions_counter = 1
        /\ heap[k].interval_start = None /\ heap[k].actions_counter = 0

\* C8 (Spec). Insert-if-absent: at most one tracker is ever created for a target,
\* and all the constructions with that target return the same tracker.
C8_InsertIfAbsent ==
    \A g \in Targets : Cardinality(CreatedFor(g)) <= 1 /\ Cardinality(got[g]) <= 1

\* C9 (Spec). Misconfiguration: no tracker exists with duration <= 0 or limit < 0.
C9_Misconfiguration ==
    \A k \in Trackers : heap[k].duration > 0 /\ heap[k].limit >= 0

\* C10 (SpecWindow). Adapter gating: every invocation that has passed the gate executed
\* the wrapped operation if its one make_request returned True and raised if it
\* returned False: per tracker, executions plus admitted calls still before the
\* gate equal the True returns, and raises plus denied calls still before the
\* gate equal the False returns.
C10_AdapterGating ==
    /\ \A t \in Threads : pc[t] = "gate" => ret[t] \in {"True", "False"}
    /\ \A k \in Trackers :
          /\ executed[k] + InFlight(k, "True") = Trues(k)
          /\ raised[k] + InFlight(k, "False") = Falses(k)

\* C10 witness: all invocations are over; one executed the operation, one raised
C10_Witness ==
    /\ \A t \in Threads : pc[t] = "idle"
    /\ \E k \in Trackers : executed[k] = 1 /\ raised[k] = 1 /\ Trues(k) = 1 /\ Falses(k) = 1

\* thread t takes the step of make_request that leaves position p
Steps(t, p) == pc[t] = p /\ pc'[t] # p

\* C11 (SpecWindow). Window advance: a rollover that replaces an expired window
\* sets interval_start to a strictly greater value, and no step makes the
\* interval_start of an open window smaller.
C11_WindowAdvance ==
    [][ \A k \in Trackers :
          heap[k].interval_start # None
          => /\ heap'[k].interval_start >= heap[k].interval_start
             /\ \A t \in Threads :
                   (Steps(t, "refresh") /\ self[t] = k /\ branch[t] = "expired")
                   => heap'[k].interval_start > heap[k].interval_start ]_vars

\* C11 witness: a call has replaced an expired window by one that starts at its
\* submit_time, while another call that read the clock before it waits for the lock
C11_Witness ==
    \E t, u \in Threads :
        /\ pc[t] = "incr" /\ branch[t] = "expired"
        /\ heap[self[t]].interval_start = submit_time[t]
        /\ pc[u] = "acquire" /\ self[u] = self[t] /\ now[u] < now[t]

\* C12 (SpecReset). Registry reset: after clear_instances() the registry holds
\* none of the trackers that existed when it was called, so every entry is a
\* tracker created after the last clear.
C12_RegistryReset ==
    \A g \in Targets : instances[g] # 0 => instances[g] > cleared

\* C13 (SpecWindow). Slack-adjusted membership: a call is counted into the
\* current window only when interval_start <= now + execution_time <=
\* interval_end; a call whose now + execution_time is past interval_end is not
\* admitted into the old window.
C13_SlackAdjusted ==
    \A t \in Threads :
        (pc[t] = "incr" /\ branch[t] = "admit")
        => /\ heap[self[t]].interval_start <= submit_time[t]
           /\ submit_time[t] <= heap[self[t]].interval_end

\* C14 (SpecWindow). No spurious denial: no make_request takes the final
\* return False of line 76; every False is returned inside an open window whose
\* actions_counter has reached limit.
C14_NoSpuriousDenial ==
    \A k \in Trackers : stats[k].fall = 0

\* C15 (SpecWindow). Deny is side-effect free: no step of a make_request that
\* returns False changes interval_start, interval_end or actions_counter; a call
\* admitted inside the window goes from the conditions straight to the
\* increment, which adds 1 to actions_counter and leaves interval_start and
\* interval_end as they were.
C15_DenyFrame ==
    [][ \A t \in Threads :
          /\ (\/ Steps(t, "clock") \/ Steps(t, "acquire") \/ Steps(t, "check")
              \/ (Steps(t, "release") /\ ret[t] = "False"))
             => Window(heap'[self[t]]) = Window(heap[self[t]])
          /\ (Steps(t, "check") /\ branch'[t] = "admit") => pc'[t] = "incr"
          /\ (Steps(t, "incr") /\ branch[t] = "admit")
             => /\ heap'[self[t]].actions_counter = heap[self[t]].actions_counter + 1
                /\ heap'[self[t]].interval_start = heap[self[t]].interval_start
                /\ heap'[self[t]].interval_end = heap[self[t]].interval_end ]_vars

\* C15 witness: a call has been denied inside a window that an earlier call in
\* the same window had filled
C15_Witness ==
    \E t \in Threads :
        /\ pc[t] = "release" /\ branch[t] = "deny" /\ ret[t] = "False"
        /\ stats[self[t]].admit >= 1
        /\ heap[self[t]].actions_counter = heap[self[t]].limit

\* C16 (SpecWindow). Mutual exclusion: at most one thread is inside the with
\* block of a tracker's make_request, and it holds the tracker's lock; every step
\* that changes interval_start, interval_end or actions_counter is a step of the
\* thread that holds the lock, from the conditions to the end of the block.
C16_MutualExclusion ==
    /\ [](\A k \in Trackers :
            /\ Cardinality(InCritical(k)) <= 1
            /\ \A t \in InCritical(k) : heap[k].lock = t)
    /\ [][ \A k \in Trackers :
             Window(heap'[k]) # Window(heap[k])
             => /\ heap[k].lock \in InCritical(k)
                /\ heap'[k].lock = heap[k].lock
                /\ pc'[heap[k].lock] # pc[heap[k].lock]
                /\ pc'[heap[k].lock] \in CriticalPcs ]_vars

\* C16 witness: one thread is about to write actions_counter inside the with
\* block while another thread waits for the same tracker's lock
C16_Witness ==
    \E t, u \in Threads :
        /\ pc[t] = "incr" /\ heap[self[t]].lock = t
        /\ pc[u] = "acquire" /\ self[u] = self[t]

\* C17 (SpecWindowFair). Termination: the lock of a tracker is free whenever no
\* thread is inside the with block of its make_request, and every thread that
\* has entered make_request eventually leaves it with True or False.
C17_Termination ==
    /\ [](\A k \in Trackers : InCritical(k) = {} => heap[k].lock = Unlocked)
    /\ \A t \in 1..NumThreads :
          (pc[t] = "clock") ~> (pc[t] = "gate" /\ ret[t] \in {"True", "False"})

\* C17 witness: a call that had to wait for the lock has returned False through
\* line 76 and the lock is free again, after calls returned through the
\* rollover and through line 74
C17_Witness ==
    \E t \in Threads :
        /\ pc[t] = "gate" /\ ret[t] = "False"
        /\ heap[self[t]].lock = Unlocked /\ InCritical(self[t]) = {}
        /\ stats[self[t]].first = 1 /\ stats[self[t]].deny = 1
        /\ stats[self[t]].fall = 1

\* C18 (SpecWindow). Saturation holds until rollover: a make_request that
\* evaluates its conditions while a window is open, has not expired for it and
\* actions_counter has reached limit returns False; a call returns True only
\* through a rollover or while actions_counter is below limit.
C18_Saturation ==
    [][ \A t \in Threads :
          /\ (/\ Steps(t, "check")
              /\ heap[self[t]].interval_start # None
              /\ now[t] <= heap[self[t]].interval_end
              /\ heap[self[t]].actions_counter >= heap[self[t]].limit)
             => (ret'[t] = "False" /\ pc'[t] = "release")
          /\ (Steps(t, "incr") /\ branch[t] \notin {"first", "expired"})
             => heap[self[t]].actions_counter < heap[self[t]].limit ]_vars

\* C18 witness: in a window filled up to limit >= 1 a call has been refused at
\* line 74, and no rollover has happened since
C18_Witness ==
    \E t \in Threads :
        /\ pc[t] = "gate" /\ ret[t] = "False"
        /\ heap[self[t]].limit >= 1
        /\ heap[self[t]].actions_counter = heap[self[t]].limit
        /\ stats[self[t]].deny >= 1 /\ stats[self[t]].expired = 0

\* C19 (SpecWindow). Windows never overlap: an open window has interval_end =
\* interval_start + duration, and every rollover of an open window opens one
\* whose interval_start is strictly greater than the interval_end of the window
\* it replaces, also when the thread read the clock before it got the lock; the
\* replaced window had expired at the reading of the call that replaces it, so
\* one expiry gives one rollover.
C19_NoOverlap ==
    /\ [](\A k \in Trackers :
            heap[k].interval_start # None
            => heap[k].interval_end = heap[k].interval_start + heap[k].duration)
    /\ [][ \A t \in Threads :
             (Steps(t, "refresh") /\ heap[self[t]].interval_start # None)
             => /\ now[t] > heap[self[t]].interval_end
                /\ heap'[self[t]].interval_start > heap[self[t]].interval_end
                /\ heap'[self[t]].interval_end
                      = heap'[self[t]].interval_start + heap[self[t]].duration ]_vars

\* C19 witness: two threads read the clock after the window had expired; one
\* has rolled the window over, and the other, with its stale reading, has
\* taken the lock after it and returned without a second rollover
C19_Witness ==
    \E t, u \in Threads :
        /\ t # u /\ self[t] = self[u]
        /\ pc[t] = "gate" /\ ret[t] = "True"
        /\ pc[u] = "release" /\ branch[u] = "fall"
        /\ now[u] > heap[self[u]].interval_start - heap[self[u]].duration
        /\ stats[self[u]].expired = 1

\* C20 (SpecWindow). Exact accounting: actions_counter of a tracker equals the
\* number of make_request calls that returned True since, and including, the
\* call that opened the current window (0 while that call is between
\* refresh_timers and its own increment); for limit >= 1 the True returns of one
\* window never exceed limit.
C20_ExactAccounting ==
    \A k \in Trackers :
        /\ heap[k].actions_counter
              = (IF Opening(k) # {} THEN 0 ELSE stats[k].inwindow)
        /\ heap[k].limit >= 1 => stats[k].inwindow <= heap[k].limit

\* C20 witness: the call that opened the window and a later call admitted into
\* it have both returned True, a third call was refused, and actions_counter is 2
C20_Witness ==
    \E k \in Trackers :
        /\ InCritical(k) = {}
        /\ stats[k].first = 1 /\ stats[k].admit = 1 /\ Falses(k) = 1
        /\ stats[k].inwindow = 2 /\ heap[k].actions_counter = 2
====
